---------------------------- MODULE Spec2Model ----------------------------
(***************************************************************************)
(* Model of ptp_diag.py: the PTP diagnostic built on ptp4l and pmc.        *)
(*                                                                         *)
(*   - the pure part: pick_profile, expected_intervals, assess, score and  *)
(*     the selection of the best result;                                   *)
(*   - the process part: main, ensure_linuxptp, try_probe, start_ptp4l,    *)
(*     pmc_query and stop_ptp4l as a state machine over the filesystem     *)
(*     artifacts and the client process of one session at a time.          *)
(***************************************************************************)
EXTENDS Integers, Sequences, FiniteSets, TLC

(***************************************************************************)
(* Python values held by a snapshot: None, bool, int or str.  A str is a   *)
(* sequence of one-character strings.  Every value carries all fields so   *)
(* that values of different Python types can be compared.                  *)
(***************************************************************************)
NoneV == [t |-> "none", i |-> 0, b |-> FALSE, s |-> <<>>]

IntV(n) == [t |-> "int", i |-> n, b |-> FALSE, s |-> <<>>]

BoolV(x) == [t |-> "bool", i |-> 0, b |-> x, s |-> <<>>]

StrV(chars) == [t |-> "str", i |-> 0, b |-> FALSE, s |-> chars]

\* `x is None`
IsNone(v) == v.t = "none"

\* dict.get(key, default) on a field that is NoneV when the key is absent
Get(v, default) == IF IsNone(v) THEN default ELSE v

\* Python truthiness: bool(v)
Truthy(v) ==
    CASE v.t = "none" -> FALSE
      [] v.t = "bool" -> v.b
      [] v.t = "int"  -> v.i # 0
      [] v.t = "str"  -> v.s # <<>>

\* `v is False`
IsFalse(v) == v.t = "bool" /\ v.b = FALSE

Digits == <<"0", "1", "2", "3", "4", "5", "6", "7", "8", "9">>

IsDigitChar(c) == \E d \in 1..10 : Digits[d] = c

DigitVal(c) == (CHOOSE d \in 1..10 : Digits[d] = c) - 1

\* a non-empty sequence of decimal digits: what int() accepts
IsDigitSeq(cs) == cs # <<>> /\ \A k \in 1..Len(cs) : IsDigitChar(cs[k])

\* a digit character that is no decimal digit (superscript two)
SuperscriptTwo == "^2"

\* str.isdigit(): non-empty, all decimal digits or other digit characters
IsDigitStr(cs) ==
    cs # <<>> /\ \A k \in 1..Len(cs) : IsDigitChar(cs[k]) \/ cs[k] = SuperscriptTwo

RECURSIVE DigitsValue(_)
DigitsValue(cs) ==
    IF cs = <<>> THEN 0
    ELSE 10 * DigitsValue(SubSeq(cs, 1, Len(cs) - 1)) + DigitVal(cs[Len(cs)])

RECURSIVE NatToChars(_)
NatToChars(n) ==
    IF n < 10 THEN <<Digits[n + 1]>>
    ELSE NatToChars(n \div 10) \o <<Digits[(n % 10) + 1]>>

\* str(v)
Str(v) ==
    CASE v.t = "none" -> <<"N", "o", "n", "e">>
      [] v.t = "bool" -> IF v.b THEN <<"T", "r", "u", "e">>
                                ELSE <<"F", "a", "l", "s", "e">>
      [] v.t = "int"  -> IF v.i < 0 THEN <<"-">> \o NatToChars(-v.i)
                                    ELSE NatToChars(v.i)
      [] v.t = "str"  -> v.s

\* int(v): ok = FALSE stands for the TypeError / ValueError the caller swallows
IntOf(v) ==
    CASE v.t = "none" -> [ok |-> FALSE, n |-> 0]
      [] v.t = "bool" -> [ok |-> TRUE, n |-> IF v.b THEN 1 ELSE 0]
      [] v.t = "int"  -> [ok |-> TRUE, n |-> v.i]
      [] v.t = "str"  ->
           IF IsDigitSeq(v.s) THEN [ok |-> TRUE, n |-> DigitsValue(v.s)]
           ELSE IF Len(v.s) > 1 /\ v.s[1] \in {"-", "+"} /\ IsDigitSeq(Tail(v.s))
                THEN [ok |-> TRUE,
                      n |-> IF v.s[1] = "-" THEN -DigitsValue(Tail(v.s))
                                            ELSE DigitsValue(Tail(v.s))]
                ELSE [ok |-> FALSE, n |-> 0]

\* the comparison of lines 189-190 without abs()
Abs_missing(n) == n

Abs(n) == IF n < 0 THEN -n ELSE n

Lower == <<"a", "b", "c", "d", "e", "f", "g", "h", "i", "j", "k", "l", "m",
           "n", "o", "p", "q", "r", "s", "t", "u", "v", "w", "x", "y", "z">>

UpperLetters ==
         <<"A", "B", "C", "D", "E", "F", "G", "H", "I", "J", "K", "L", "M",
           "N", "O", "P", "Q", "R", "S", "T", "U", "V", "W", "X", "Y", "Z">>

UpperChar(c) ==
    IF \E k \in 1..26 : Lower[k] = c
    THEN UpperLetters[CHOOSE k \in 1..26 : Lower[k] = c]
    ELSE c

\* str.upper()
Upper(cs) == [k \in 1..Len(cs) |-> UpperChar(cs[k])]

(***************************************************************************)
(* parse_pmc_output.  A text is the sequence of its lines (splitlines) and *)
(* a line is the sequence of its characters.  The two regular expressions  *)
(* are computed on the characters.                                         *)
(***************************************************************************)
IsSpace(c) == c \in {" ", "\t"}

\* [A-Za-z0-9_], the word characters of \b
IsWordChar(c) ==
    \/ \E k \in 1..26 : Lower[k] = c \/ UpperLetters[k] = c
    \/ IsDigitChar(c)
    \/ c = "_"

\* [A-Z0-9_]
IsUpperIdChar(c) ==
    \/ \E k \in 1..26 : UpperLetters[k] = c
    \/ IsDigitChar(c)
    \/ c = "_"

LowerChar(c) ==
    IF \E k \in 1..26 : UpperLetters[k] = c
    THEN Lower[CHOOSE k \in 1..26 : UpperLetters[k] = c]
    ELSE c

\* str.lower()
LowerStr(cs) == [k \in 1..Len(cs) |-> LowerChar(cs[k])]

\* the parser without line.strip()
Strip_missing(cs) == cs

\* str.strip()
Strip(cs) ==
    LET ink == {k \in 1..Len(cs) : ~IsSpace(cs[k])}
    IN  IF ink = {} THEN <<>>
        ELSE SubSeq(cs, CHOOSE a \in ink : \A b \in ink : a <= b,
                        CHOOSE a \in ink : \A b \in ink : a >= b)

Keywords == {<<"R", "E", "S", "P", "O", "N", "S", "E">>,
             <<"A", "N", "N", "O", "U", "N", "C", "E">>,
             <<"M", "A", "N", "A", "G", "E", "M", "E", "N", "T">>}

\* a word character at position p of the line; none outside the line
WordAt(line, p) == p >= 1 /\ p <= Len(line) /\ IsWordChar(line[p])

\* \b between positions p - 1 and p
Boundary(line, p) == WordAt(line, p - 1) # WordAt(line, p)

\* re.search(r"\b(RESPONSE|ANNOUNCE|MANAGEMENT)\b.*\b([A-Z0-9_]+)\b$", line):
\* group 2 is the run of word characters that ends the line, all of them in
\* [A-Z0-9_], and a keyword stands as a whole word before it.
HeaderMatch(line) ==
    LET n == Len(line)
        starts == {q \in 1..n : /\ Boundary(line, q)
                                /\ \A k \in q..n : IsUpperIdChar(line[k])}
        ok == \E q \in starts : \E i \in 1..q : \E kw \in Keywords :
                /\ i + Len(kw) <= q
                /\ SubSeq(line, i, i + Len(kw) - 1) = kw
                /\ Boundary(line, i)
                /\ Boundary(line, i + Len(kw))
    IN  [ok |-> ok,
         name |-> IF ok THEN SubSeq(line, CHOOSE q \in starts : TRUE, n) ELSE <<>>]

\* re.match(r"([A-Za-z0-9_]+)\s+(.+)$", line), then group(2).strip(): the key
\* is the run of word characters that starts the line, one white space at
\* least follows it, and one more character at least follows that.
KVMatch(line) ==
    LET n == Len(line)
        ends == {e \in 1..n : /\ \A k \in 1..e : IsWordChar(line[k])
                              /\ e + 2 <= n
                              /\ IsSpace(line[e + 1])}
        ok == ends # {}
        e == CHOOSE x \in ends : TRUE
    IN  [ok |-> ok,
         k |-> IF ok THEN SubSeq(line, 1, e) ELSE <<>>,
         v |-> IF ok THEN Strip(SubSeq(line, e + 2, n)) ELSE <<>>]

HexDigits == <<"0", "1", "2", "3", "4", "5", "6", "7", "8", "9",
               "a", "b", "c", "d", "e", "f">>

IsHexChar(c) == \E d \in 1..16 : HexDigits[d] = LowerChar(c)

HexVal(c) == (CHOOSE d \in 1..16 : HexDigits[d] = LowerChar(c)) - 1

RECURSIVE HexValue(_)
HexValue(cs) ==
    IF cs = <<>> THEN 0
    ELSE 16 * HexValue(SubSeq(cs, 1, Len(cs) - 1)) + HexVal(cs[Len(cs)])

\* lines 120-127: the typed value of the text v
Coerce(v) ==
    IF LowerStr(v) \in {<<"t", "r", "u", "e">>, <<"f", "a", "l", "s", "e">>}
    THEN BoolV(LowerStr(v) = <<"t", "r", "u", "e">>)
    ELSE IF Len(v) >= 2 /\ SubSeq(v, 1, 2) = <<"0", "x">>
    THEN \* int(v, 0)
         IF Len(v) > 2 /\ \A k \in 3..Len(v) : IsHexChar(v[k])
         THEN IntV(HexValue(SubSeq(v, 3, Len(v))))
         ELSE StrV(v)
    ELSE \* int(v)
         IF IntOf(StrV(v)).ok THEN IntV(IntOf(StrV(v)).n) ELSE StrV(v)

\* {}: a dict with no key
EmptyDict == <<>>

\* one turn of the loop of lines 108-128; current is <<>> (None) or <<name>>
ParseLine(st, raw) ==
    LET line == Strip(raw)
        m == HeaderMatch(line)
        kv == KVMatch(line)
    IN  IF line = <<>> THEN st
        ELSE IF m.ok
        THEN [data |-> IF m.name \in DOMAIN st.data THEN st.data
                       ELSE (m.name :> EmptyDict) @@ st.data,
              current |-> <<m.name>>]
        ELSE IF st.current # <<>> /\ kv.ok
        THEN [data |-> [st.data EXCEPT ![st.current[1]] = (kv.k :> Coerce(kv.v)) @@ @],
              current |-> st.current]
        ELSE st

RECURSIVE ParseLines(_, _)
ParseLines(st, text) ==
    IF text = <<>> THEN st
    ELSE ParseLines(ParseLine(st, Head(text)), Tail(text))

parse_pmc_output(text) ==
    ParseLines([data |-> EmptyDict, current |-> <<>>], text).data

(***************************************************************************)
(* Transports.                                                             *)
(***************************************************************************)
TransportFlags == <<"-2", "-4", "-6">>

infer_transport(flag_used) ==
    CASE flag_used = "-2" -> "L2"
      [] flag_used = "-4" -> "UDPv4"
      [] flag_used = "-6" -> "UDPv6"
      [] OTHER -> "Unknown"

Transports == {"L2", "UDPv4", "UDPv6"}

(***************************************************************************)
(* Profile labels.  A label is the sequence of its pieces; the pieces are  *)
(* cut so that each substring expected_intervals looks for ("9-3",         *)
(* "G.8275.1", "G.8275.2", "Default") is a whole piece wherever it occurs. *)
(***************************************************************************)
LabelPowerUtility == <<"IEC/IEEE 61850-", "9-3", " (Power Utility Profile)">>

LabelTelecomFull == <<"ITU-T ", "G.8275.1", " (Telecom, full timing support)">>

LabelL2P2P == <<"L2 P2P (likely ", "9-3", " or ", "G.8275.1", ")">>

LabelTelecomPartial == <<"ITU-T ", "G.8275.2", " (Telecom, partial timing support)">>

LabelDefault == <<"IEEE 1588 ", "Default", " Profile">>

LabelIPE2E == <<"IP E2E (likely ", "Default", "/", "G.8275.2", ")">>

LabelUnknown == <<"Unknown/Mixed">>

Labels == {LabelPowerUtility, LabelTelecomFull, LabelL2P2P, LabelTelecomPartial,
           LabelDefault, LabelIPE2E, LabelUnknown}

\* `needle in profile`
Contains(profile, needle) == \E k \in 1..Len(profile) : profile[k] = needle


(***************************************************************************)
(* pick_profile: the decision table of the classifier.                     *)
(***************************************************************************)
P2P == <<"P", "2", "P">>

E2E == <<"E", "2", "E">>

AUTO == <<"A", "U", "T", "O">>

NONE == <<"N", "O", "N", "E">>

\* pick_profile without the upper-casing of the delay mechanism
pick_profile_case_sensitive(transport, domain, delay_mech, log_sync, log_announce, two_step) ==
    LET dm == Str(delay_mech)
    IN  IF transport = "L2" /\ dm = P2P
        THEN IF domain \in {0, 1} THEN LabelPowerUtility
             ELSE IF domain \in {24} THEN LabelTelecomFull
             ELSE LabelL2P2P
        ELSE IF transport \in {"UDPv4", "UDPv6"} /\ dm \in {E2E, AUTO, NONE}
        THEN IF domain \in {24} THEN LabelTelecomPartial
             ELSE IF domain \in {0} THEN LabelDefault
             ELSE LabelIPE2E
        ELSE LabelUnknown

pick_profile(transport, domain, delay_mech, log_sync, log_announce, two_step) ==
    LET dm == Upper(Str(delay_mech))
    IN  IF transport = "L2" /\ dm = P2P
        THEN IF domain \in {0, 1} THEN LabelPowerUtility
             ELSE IF domain \in {24} THEN LabelTelecomFull
             ELSE LabelL2P2P
        ELSE IF transport \in {"UDPv4", "UDPv6"} /\ dm \in {E2E, AUTO, NONE}
        THEN IF domain \in {24} THEN LabelTelecomPartial
             ELSE IF domain \in {0} THEN LabelDefault
             ELSE LabelIPE2E
        ELSE LabelUnknown

(***************************************************************************)
(* expected_intervals: the envelope of a profile, found by substring.      *)
(* two_step is BoolV(TRUE) or NoneV; delay_mech is a StrV or NoneV.        *)
(***************************************************************************)
\* expected_intervals looking the envelope up by the whole label
expected_intervals_whole_label(profile) ==
    IF profile = LabelPowerUtility \/ profile = LabelTelecomFull
    THEN [two_step |-> BoolV(TRUE), log_sync |-> {-4, -3}, log_announce |-> {0},
          delay_mech |-> StrV(P2P)]
    ELSE IF profile = LabelTelecomPartial
    THEN [two_step |-> NoneV, log_sync |-> {-4, -3, -2}, log_announce |-> {0},
          delay_mech |-> StrV(E2E)]
    ELSE IF profile = LabelDefault
    THEN [two_step |-> NoneV, log_sync |-> {-4, -3, -2, 0}, log_announce |-> {0, 1},
          delay_mech |-> StrV(E2E)]
    ELSE [two_step |-> NoneV, log_sync |-> {}, log_announce |-> {},
          delay_mech |-> NoneV]

expected_intervals(profile) ==
    IF Contains(profile, "9-3")
    THEN [two_step |-> BoolV(TRUE), log_sync |-> {-4, -3}, log_announce |-> {0},
          delay_mech |-> StrV(P2P)]
    ELSE IF Contains(profile, "G.8275.1")
    THEN [two_step |-> BoolV(TRUE), log_sync |-> {-4, -3}, log_announce |-> {0},
          delay_mech |-> StrV(P2P)]
    ELSE IF Contains(profile, "G.8275.2")
    THEN [two_step |-> NoneV, log_sync |-> {-4, -3, -2}, log_announce |-> {0},
          delay_mech |-> StrV(E2E)]
    ELSE IF Contains(profile, "Default")
    THEN [two_step |-> NoneV, log_sync |-> {-4, -3, -2, 0}, log_announce |-> {0, 1},
          delay_mech |-> StrV(E2E)]
    ELSE [two_step |-> NoneV, log_sync |-> {}, log_announce |-> {},
          delay_mech |-> NoneV]

(***************************************************************************)
(* Snapshots: dataset name -> field name -> value.  A dataset is a record  *)
(* of the fields assess reads; a field that is NoneV is absent, and a      *)
(* dataset whose fields are all absent stands for a missing dataset too    *)
(* (data.get(name, {}) reads both alike).  DOMAIN_ is the dataset "DOMAIN". *)
(***************************************************************************)
EmptySnapshot ==
    [TIME_STATUS_NP |-> [gmPresent |-> NoneV, gmIdentity |-> NoneV,
                         master_offset |-> NoneV, meanPathDelay |-> NoneV,
                         peerMeanPathDelay |-> NoneV],
     DEFAULT_DATA_SET |-> [domainNumber |-> NoneV, clockClass |-> NoneV],
     PARENT_DATA_SET |-> [grandmasterIdentity |-> NoneV,
                          grandmasterClockClass |-> NoneV],
     TIME_PROPERTIES_DATA_SET |-> [timeTraceable |-> NoneV,
                                   frequencyTraceable |-> NoneV],
     PORT_DATA_SET_NP |-> [delay_mechanism |-> NoneV, twoStep |-> NoneV,
                           two_step |-> NoneV, logSyncInterval |-> NoneV,
                           logAnnounceInterval |-> NoneV,
                           logMinPdelayReqInterval |-> NoneV,
                           profileIdentity |-> NoneV],
     CLOCK_DESCRIPTION |-> [profileIdentity |-> NoneV],
     DOMAIN_ |-> [domainNumber |-> NoneV],
     DELAY_MECHANISM |-> [delay_mechanism |-> NoneV],
     LOG_SYNC_INTERVAL |-> [logSyncInterval |-> NoneV],
     LOG_ANNOUNCE_INTERVAL |-> [logAnnounceInterval |-> NoneV],
     LOG_MIN_PDELAY_REQ_INTERVAL |-> [logMinPdelayReqInterval |-> NoneV]]

(***************************************************************************)
(* Thresholds of assess.                                                   *)
(***************************************************************************)
OffsetCriticalNs == 10000000

OffsetWarningNs == 1000000

PathDelayWarningNs == 5000000

ClockClassWarning == 128

\* The messages of assess, without the numbers formatted into them.
MsgNoGM == "No grandmaster detected on this transport/config."

MsgOffsetCritical == "Master offset (>10 ms)."

MsgOffsetWarning == "Master offset (>1 ms)."

MsgPathDelay == "Mean path delay (>5 ms)."

MsgDelayMech == "Delay mechanism differs from the expected one."

MsgOneStep == "1-step observed; profile typically requires 2-step."

MsgLogSync == "logSyncInterval atypical."

MsgLogAnnounce == "logAnnounceInterval atypical."

MsgTimeTraceable == "timeTraceable=false."

MsgFreqTraceable == "frequencyTraceable=false."

MsgClockClass == "grandmasterClockClass (unspecified/holdover)."

\* `lst.append(msg)` when cond holds
AppendIf(lst, cond, msg) == IF cond THEN Append(lst, msg) ELSE lst

\* status_of with the two tests in the wrong order
status_of_warnings_first(critical, warnings) ==
    IF warnings # <<>> THEN 1 ELSE IF critical # <<>> THEN 2 ELSE 0

\* status = 2 if critical else (1 if warnings else 0)
status_of(critical, warnings) ==
    IF critical # <<>> THEN 2 ELSE IF warnings # <<>> THEN 1 ELSE 0

assess(data, transport) ==
    LET ts  == data.TIME_STATUS_NP
        dds == data.DEFAULT_DATA_SET
        pds == data.PARENT_DATA_SET
        tps == data.TIME_PROPERTIES_DATA_SET
        pnp == data.PORT_DATA_SET_NP
        cd  == data.CLOCK_DESCRIPTION
        domain == Get(data.DOMAIN_.domainNumber, Get(dds.domainNumber, IntV(0)))
        delay_mech == Get(data.DELAY_MECHANISM.delay_mechanism,
                          Get(pnp.delay_mechanism, StrV(<<"A", "u", "t", "o">>)))
        two_step == Truthy(Get(pnp.twoStep, Get(pnp.two_step, BoolV(FALSE))))
        log_sync == Get(data.LOG_SYNC_INTERVAL.logSyncInterval, pnp.logSyncInterval)
        log_announce == Get(data.LOG_ANNOUNCE_INTERVAL.logAnnounceInterval,
                            pnp.logAnnounceInterval)
        log_pdelay == Get(data.LOG_MIN_PDELAY_REQ_INTERVAL.logMinPdelayReqInterval,
                          pnp.logMinPdelayReqInterval)
        gm_present == Get(ts.gmPresent, BoolV(FALSE))
        gm_id == Get(ts.gmIdentity, pds.grandmasterIdentity)
        master_offset == ts.master_offset
        mean_path_delay == Get(ts.meanPathDelay, ts.peerMeanPathDelay)
        clock_class == Get(pds.grandmasterClockClass, dds.clockClass)
        time_traceable == tps.timeTraceable
        freq_traceable == tps.frequencyTraceable
        prof_identity == Get(cd.profileIdentity, pnp.profileIdentity)
        profile == pick_profile(transport,
                                IF IsDigitStr(Str(domain)) THEN IntOf(domain).n ELSE 0,
                                StrV(Str(delay_mech)), log_sync, log_announce, two_step)
        exp == expected_intervals(profile)
        off == IntOf(master_offset)
        mpd == IntOf(mean_path_delay)
        ls  == IntOf(log_sync)
        la  == IntOf(log_announce)
        cc  == IntOf(clock_class)
        c1 == AppendIf(<<>>, ~Truthy(gm_present), MsgNoGM)
        c2 == AppendIf(c1, ~IsNone(master_offset) /\ off.ok
                           /\ Abs(off.n) > OffsetCriticalNs, MsgOffsetCritical)
        w1 == AppendIf(<<>>, ~IsNone(master_offset) /\ off.ok
                             /\ ~(Abs(off.n) > OffsetCriticalNs)
                             /\ Abs(off.n) > OffsetWarningNs, MsgOffsetWarning)
        w2 == AppendIf(w1, ~IsNone(mean_path_delay) /\ mpd.ok
                           /\ mpd.n > PathDelayWarningNs, MsgPathDelay)
        w3 == AppendIf(w2, Truthy(exp.delay_mech)
                           /\ exp.delay_mech.s # Upper(Str(delay_mech)), MsgDelayMech)
        w4 == AppendIf(w3, exp.two_step = BoolV(TRUE) /\ two_step = FALSE, MsgOneStep)
        w5 == AppendIf(w4, ~IsNone(log_sync) /\ exp.log_sync # {} /\ ls.ok
                           /\ ls.n \notin exp.log_sync, MsgLogSync)
        w6 == AppendIf(w5, ~IsNone(log_announce) /\ exp.log_announce # {} /\ la.ok
                           /\ la.n \notin exp.log_announce, MsgLogAnnounce)
        w7 == AppendIf(w6, IsFalse(time_traceable), MsgTimeTraceable)
        w8 == AppendIf(w7, IsFalse(freq_traceable), MsgFreqTraceable)
        w9 == AppendIf(w8, ~IsNone(clock_class) /\ cc.ok
                           /\ cc.n >= ClockClassWarning, MsgClockClass)
    IN  [transport |-> transport,
         domain |-> domain,
         delay_mechanism |-> Str(delay_mech),
         two_step |-> two_step,
         log_sync |-> log_sync,
         log_announce |-> log_announce,
         log_pdelay |-> log_pdelay,
         profile_guess |-> profile,
         profile_identity_raw |-> prof_identity,
         gm_present |-> gm_present,
         gm_identity |-> gm_id,
         grandmasterClockClass |-> clock_class,
         timeTraceable |-> time_traceable,
         frequencyTraceable |-> freq_traceable,
         master_offset_ns |-> master_offset,
         mean_path_delay_ns |-> mean_path_delay,
         warnings |-> w9,
         critical |-> c2,
         status_code |-> status_of(c2, w9)]

(***************************************************************************)
(* assess raises when int(domain) fails although str(domain).isdigit()     *)
(* holds (line 180): isdigit accepts digit characters such as a            *)
(* superscript two that int rejects.  Every other coercion of assess is    *)
(* inside a try that swallows the error.  assess(data, t) is the result    *)
(* only when assess_raises(data) is false.                                 *)
(***************************************************************************)
assess_raises(data) ==
    LET domain == Get(data.DOMAIN_.domainNumber,
                      Get(data.DEFAULT_DATA_SET.domainNumber, IntV(0)))
    IN  IsDigitStr(Str(domain)) /\ ~IntOf(domain).ok

(***************************************************************************)
(* The selection of the best result (lines 275-276).                       *)
(* sorted(results, key=score, reverse=True) is stable: it orders by        *)
(* descending key and keeps equal keys in their original order.            *)
(***************************************************************************)
\* score with the grandmaster flag last instead of first
score_gm_last(s) == <<-Len(s.critical), -Len(s.warnings), IF Truthy(s.gm_present) THEN 1 ELSE 0>>

score(s) == <<IF Truthy(s.gm_present) THEN 1 ELSE 0, -Len(s.critical), -Len(s.warnings)>>

\* tuple comparison a > b on triples
TupleGreater(a, b) ==
    \/ a[1] > b[1]
    \/ a[1] = b[1] /\ a[2] > b[2]
    \/ a[1] = b[1] /\ a[2] = b[2] /\ a[3] > b[3]

\* insert x after every element whose key is greater than or equal to x's
RECURSIVE InsertDesc(_, _)
InsertDesc(sorted, x) ==
    IF sorted = <<>> THEN <<x>>
    ELSE IF TupleGreater(score(x), score(Head(sorted)))
         THEN <<x>> \o sorted
         ELSE <<Head(sorted)>> \o InsertDesc(Tail(sorted), x)

RECURSIVE SortedDesc(_)
SortedDesc(lst) ==
    IF lst = <<>> THEN <<>>
    ELSE InsertDesc(SortedDesc(SubSeq(lst, 1, Len(lst) - 1)), lst[Len(lst)])

\* best = sorted(results, key=score, reverse=True)[0]
best_of(lst) == SortedDesc(lst)[1]

(***************************************************************************)
(* The run of main as a state machine.                                     *)
(***************************************************************************)
VARIABLES
    pc,          \* where main is: the next step to take
    idx,         \* number of the transport being probed (0 before the loop)
    tried,       \* list `tried` of main
    results,     \* list `results` of main
    best,        \* <<>> or <<the result selected and reported>>
    exit_code,   \* -1 while running, then the exit status of the process
    exc,         \* exception pending in try_probe or that ended the run
    summary,     \* <<>> or <<the summary try_probe is about to return>>
    intr_at,     \* step at which a user interrupt was delivered, or "none"
    query,       \* how pmc_query ended in the current try_probe: "none" (not
                 \* run), "failed" (returned None), "TimeoutExpired", "text"
    cfg,         \* per session: the config file exists
    uds,         \* per session: the control-channel path exists
    proc,        \* per session: "none", "running", "exited", or "killed" (SIGKILL
                 \* sent and the client not gone yet)
    outcome,     \* per session: "none", "running", "summary", "error", "raised"
    logf,        \* log file object of the current try_probe: "none", "open", "closed"
    acquired,    \* resources start_ptp4l acquired in the current try_probe
    attempts,    \* how often each step of the current stop_ptp4l was attempted
    failed,      \* steps of the current stop_ptp4l that raised an Exception
    stop_state,  \* stop_ptp4l of the current try_probe: "not_called", "running",
                 \* "returned" or "raised"
    arg,         \* input of the pure function under check
    res          \* <<>> or <<its result>>

vars == <<pc, idx, tried, results, best, exit_code, exc, summary, intr_at, query, cfg, uds,
          logf, proc, acquired, attempts, failed, stop_state, outcome, arg, res>>

mainVars == <<tried, results, best>>

sessionVars == <<cfg, uds, logf, proc, acquired>>

stopVars == <<attempts, failed, stop_state>>

pureVars == <<arg, res>>

\* what only for_next and query_and_assess change
quietVars == <<query, arg, res>>

Sessions == 1..Len(TransportFlags)

Steps == {"term", "wait", "kill", "close", "unlink"}

Resources == {"cfg", "logf", "proc"}

InitAt(start) ==
    /\ pc = start
    /\ idx = 0
    /\ tried = <<>>
    /\ results = <<>>
    /\ best = <<>>
    /\ exit_code = -1
    /\ exc = "none"
    /\ summary = <<>>
    /\ intr_at = "none"
    /\ query = "none"
    /\ cfg = [k \in Sessions |-> FALSE]
    /\ uds = [k \in Sessions |-> FALSE]
    /\ proc = [k \in Sessions |-> "none"]
    /\ logf = "none"
    /\ acquired = {}
    /\ attempts = [st \in Steps |-> 0]
    /\ failed = {}
    /\ stop_state = "not_called"
    /\ outcome = [k \in Sessions |-> "none"]

Init == InitAt("require_root") /\ arg = <<>> /\ res = <<>>

(***************************************************************************)
(* Snapshots the management query can bring back in a run.                 *)
(***************************************************************************)
SnapHealthy ==
    [EmptySnapshot EXCEPT !.TIME_STATUS_NP.gmPresent = BoolV(TRUE),
                          !.TIME_STATUS_NP.master_offset = IntV(500000),
                          !.TIME_STATUS_NP.meanPathDelay = IntV(200000)]

SnapOffsetCritical ==
    [EmptySnapshot EXCEPT !.TIME_STATUS_NP.gmPresent = BoolV(TRUE),
                          !.TIME_STATUS_NP.master_offset = IntV(-20000000)]

SnapNoGMWarn ==
    [EmptySnapshot EXCEPT !.TIME_STATUS_NP.gmPresent = BoolV(FALSE),
                          !.TIME_PROPERTIES_DATA_SET.timeTraceable = BoolV(FALSE),
                          !.PARENT_DATA_SET.grandmasterClockClass = IntV(248)]

SnapBadDomain ==
    [EmptySnapshot EXCEPT !.TIME_STATUS_NP.gmPresent = BoolV(TRUE),
                          !.DOMAIN_.domainNumber = StrV(<<SuperscriptTwo>>)]

RunSnapshots == {EmptySnapshot, SnapHealthy, SnapOffsetCritical, SnapNoGMWarn,
                 SnapBadDomain}

(***************************************************************************)
(* An exception that leaves try_probe is not caught by main: the           *)
(* interpreter ends the run, with status 1 after a traceback and with the  *)
(* status of a SIGINT death (130) after a KeyboardInterrupt.               *)
(***************************************************************************)
Uncaught(e) ==
    /\ pc' = "exited"
    /\ exc' = e
    /\ exit_code' = IF e = "KeyboardInterrupt" THEN 130 ELSE 1

Raised(k, e) ==
    /\ Uncaught(e)
    /\ outcome' = [outcome EXCEPT ![k] = "raised"]

\* lines 44-47
require_root ==
    /\ pc = "require_root"
    /\ \E is_root \in BOOLEAN :
         IF is_root
         THEN pc' = "ensure_linuxptp" /\ UNCHANGED exit_code
         ELSE pc' = "exited" /\ exit_code' = 3
    /\ UNCHANGED <<idx, exc, summary, intr_at, outcome>>
    /\ UNCHANGED <<mainVars, sessionVars, stopVars, quietVars>>

\* lines 52-62: the first run (apt-get update) can only time out, its result
\* is not read; the second (apt-get install) fails the run when rc # 0.
ensure_linuxptp ==
    /\ pc = "ensure_linuxptp"
    /\ \E have_tools \in BOOLEAN,
          install \in {"installed", "failed", "TimeoutExpired"} :
         IF have_tools \/ install = "installed"
         THEN pc' = "for" /\ UNCHANGED <<exit_code, exc>>
         ELSE IF install = "failed"
         THEN pc' = "exited" /\ exit_code' = 3 /\ UNCHANGED exc
         ELSE Uncaught("TimeoutExpired")
    /\ UNCHANGED <<idx, summary, intr_at, outcome>>
    /\ UNCHANGED <<mainVars, sessionVars, stopVars, quietVars>>

\* lines 266-268: the head of the loop and the entry of try_probe
for_next ==
    /\ pc = "for"
    /\ IF idx < Len(TransportFlags)
       THEN /\ idx' = idx + 1
            /\ tried' = Append(tried, infer_transport(TransportFlags[idx + 1]))
            /\ outcome' = [outcome EXCEPT ![idx + 1] = "running"]
            /\ summary' = <<>>
            /\ logf' = "none"
            /\ acquired' = {}
            /\ attempts' = [st \in Steps |-> 0]
            /\ failed' = {}
            /\ stop_state' = "not_called"
            /\ query' = "none"
            /\ pc' = "mkstemp"
       ELSE /\ pc' = "after_loop"
            /\ UNCHANGED <<idx, tried, outcome, summary, logf, acquired, stopVars, query>>
    /\ UNCHANGED <<results, best, exit_code, exc, intr_at, cfg, uds, proc, pureVars>>

(***************************************************************************)
(* start_ptp4l (lines 64-85), called before the try of try_probe: what it  *)
(* raises leaves try_probe without stop_ptp4l.                             *)
(***************************************************************************)
\* lines 74-76
start_mkstemp ==
    /\ pc = "mkstemp"
    /\ \E r \in {"ok", "OSError", "KeyboardInterrupt"} :
         IF r = "ok"
         THEN /\ cfg' = [cfg EXCEPT ![idx] = TRUE]
              /\ acquired' = acquired \cup {"cfg"}
              /\ pc' = "open_log"
              /\ UNCHANGED <<exc, exit_code, outcome, intr_at>>
         ELSE /\ Raised(idx, r)
              /\ intr_at' = IF r = "KeyboardInterrupt" THEN "mkstemp" ELSE intr_at
              /\ UNCHANGED <<cfg, acquired>>
    /\ UNCHANGED <<idx, summary, uds, logf, proc>>
    /\ UNCHANGED <<mainVars, stopVars, quietVars>>

\* line 83
start_open_log ==
    /\ pc = "open_log"
    /\ \E r \in {"ok", "OSError", "KeyboardInterrupt"} :
         IF r = "ok"
         THEN /\ logf' = "open"
              /\ acquired' = acquired \cup {"logf"}
              /\ pc' = "popen"
              /\ UNCHANGED <<exc, exit_code, outcome, intr_at>>
         ELSE /\ Raised(idx, r)
              /\ intr_at' = IF r = "KeyboardInterrupt" THEN "open_log" ELSE intr_at
              /\ UNCHANGED <<logf, acquired>>
    /\ UNCHANGED <<idx, summary, cfg, uds, proc>>
    /\ UNCHANGED <<mainVars, stopVars, quietVars>>

\* lines 84-85: the client binds its control channel once spawned.  An
\* interrupt can arrive before the spawn or after it, still before the try.
start_popen ==
    /\ pc = "popen"
    /\ \E r \in {"ok", "OSError", "KeyboardInterrupt"}, spawned \in BOOLEAN :
         /\ r = "ok" => spawned
         /\ r = "OSError" => ~spawned
         /\ IF spawned
            THEN /\ proc' = [proc EXCEPT ![idx] = "running"]
                 /\ uds' = [uds EXCEPT ![idx] = TRUE]
                 /\ acquired' = acquired \cup {"proc"}
            ELSE UNCHANGED <<proc, uds, acquired>>
         /\ IF r = "ok"
            THEN pc' = "sleep" /\ UNCHANGED <<exc, exit_code, outcome, intr_at>>
            ELSE /\ Raised(idx, r)
                 /\ intr_at' = IF r = "KeyboardInterrupt" THEN "popen" ELSE intr_at
    /\ UNCHANGED <<idx, summary, cfg, logf>>
    /\ UNCHANGED <<mainVars, stopVars, quietVars>>

(***************************************************************************)
(* The try of try_probe (lines 245-252).  Whatever ends it, the finally    *)
(* clause runs stop_ptp4l next.                                            *)
(***************************************************************************)
EnterStop ==
    /\ pc' = "stop_term"
    /\ stop_state' = "running"

\* line 246
dwell ==
    /\ pc = "sleep"
    /\ \/ pc' = "pmc_query" /\ UNCHANGED <<exc, intr_at, stop_state>>
       \/ EnterStop /\ exc' = "KeyboardInterrupt" /\ intr_at' = "sleep"
    /\ UNCHANGED <<idx, exit_code, summary, outcome, attempts, failed>>
    /\ UNCHANGED <<mainVars, sessionVars, quietVars>>

\* lines 247-252 with pmc_query (lines 99-104): the query returns None
\* (rc # 0 and no output), returns text, or run() raises TimeoutExpired after
\* 10 s; text is parsed and assessed.
query_and_assess ==
    /\ pc = "pmc_query"
    /\ EnterStop
    /\ \/ /\ exc' = "TimeoutExpired"
          /\ query' = "TimeoutExpired"
          /\ UNCHANGED <<summary, intr_at>>
       \/ /\ exc' = "KeyboardInterrupt"
          /\ intr_at' = "pmc_query"
          /\ UNCHANGED <<summary, query>>
       \/ \* out is None: return None, "pmc error"
          /\ query' = "failed"
          /\ UNCHANGED <<summary, exc, intr_at>>
       \/ /\ query' = "text"
          /\ \E data \in RunSnapshots :
               IF assess_raises(data)
               THEN exc' = "ValueError" /\ UNCHANGED <<summary, intr_at>>
               ELSE /\ summary' = <<assess(data, infer_transport(TransportFlags[idx]))>>
                    /\ UNCHANGED <<exc, intr_at>>
    /\ UNCHANGED <<idx, exit_code, outcome, attempts, failed>>
    /\ UNCHANGED <<mainVars, sessionVars, pureVars>>

(***************************************************************************)
(* stop_ptp4l (lines 87-97).  Each step is inside its own                  *)
(* `try ... except Exception: pass`: an Exception is swallowed and the     *)
(* next step runs; a KeyboardInterrupt is no Exception and leaves          *)
(* stop_ptp4l at once, replacing the exception that was pending.           *)
(***************************************************************************)
Attempt(step) == attempts' = [attempts EXCEPT ![step] = @ + 1]

Swallowed(step) == failed' = failed \cup {step}

InterruptedInStop(at) ==
    /\ Raised(idx, "KeyboardInterrupt")
    /\ intr_at' = at
    /\ stop_state' = "raised"
    /\ UNCHANGED failed

\* the graceful signal reached the process group
TermDelivered == attempts["term"] > 0 /\ "term" \notin failed

\* lines 88-89
stop_term ==
    /\ pc = "stop_term"
    /\ Attempt("term")
    /\ \E r \in {"ok", "Exception", "KeyboardInterrupt"} :
         CASE r = "ok" ->
                /\ pc' = "stop_wait"
                /\ UNCHANGED <<failed, stop_state, exc, exit_code, outcome, intr_at>>
           [] r = "Exception" ->
                /\ pc' = "stop_wait"
                /\ Swallowed("term")
                /\ UNCHANGED <<stop_state, exc, exit_code, outcome, intr_at>>
           [] r = "KeyboardInterrupt" -> InterruptedInStop("stop_term")
    /\ UNCHANGED <<idx, summary>>
    /\ UNCHANGED <<mainVars, sessionVars, quietVars>>

\* lines 90-91: proc.wait(timeout=5).  A client that got the signal exits and
\* removes its control-channel path, or does not exit in time; a client that
\* got no signal keeps running.  TimeoutExpired is the Exception of this step.
stop_wait ==
    /\ pc = "stop_wait"
    /\ Attempt("wait")
    /\ \E r \in {"exited", "TimeoutExpired", "KeyboardInterrupt"} :
         CASE r = "exited" ->
                /\ TermDelivered
                /\ proc' = [proc EXCEPT ![idx] = "exited"]
                /\ uds' = [uds EXCEPT ![idx] = FALSE]
                /\ pc' = "stop_close"
                /\ UNCHANGED <<failed, stop_state, exc, exit_code, outcome, intr_at>>
           [] r = "TimeoutExpired" ->
                /\ pc' = "stop_kill"
                /\ Swallowed("wait")
                /\ UNCHANGED <<proc, uds, stop_state, exc, exit_code, outcome, intr_at>>
           [] r = "KeyboardInterrupt" ->
                /\ InterruptedInStop("stop_wait")
                /\ UNCHANGED <<proc, uds>>
    /\ UNCHANGED <<idx, summary, cfg, logf, acquired>>
    /\ UNCHANGED <<mainVars, quietVars>>

\* lines 92-93, the handler of the wait's Exception.  A killed client is not
\* waited for and leaves its control-channel path behind.
stop_kill ==
    /\ pc = "stop_kill"
    /\ Attempt("kill")
    /\ \E r \in {"ok", "Exception", "KeyboardInterrupt"} :
         CASE r = "ok" ->
                /\ proc' = [proc EXCEPT ![idx] = "killed"]
                /\ pc' = "stop_close"
                /\ UNCHANGED <<failed, stop_state, exc, exit_code, outcome, intr_at>>
           [] r = "Exception" ->
                /\ pc' = "stop_close"
                /\ Swallowed("kill")
                /\ UNCHANGED <<proc, stop_state, exc, exit_code, outcome, intr_at>>
           [] r = "KeyboardInterrupt" ->
                /\ InterruptedInStop("stop_kill")
                /\ UNCHANGED proc
    /\ UNCHANGED <<idx, summary, cfg, uds, logf, acquired>>
    /\ UNCHANGED <<mainVars, quietVars>>

\* The kernel ends a client that was sent SIGKILL.  os.killpg (line 93) only
\* posts the signal and nothing in stop_ptp4l or after it waits for the client
\* again, so this happens at some later moment of the run, or after it.
client_dies ==
    /\ \E k \in Sessions :
         /\ proc[k] = "killed"
         /\ proc' = [proc EXCEPT ![k] = "exited"]
    /\ UNCHANGED <<pc, idx, exit_code, exc, summary, intr_at, outcome, cfg, uds, logf,
                   acquired>>
    /\ UNCHANGED <<mainVars, stopVars, quietVars>>

\* lines 94-95
stop_close ==
    /\ pc = "stop_close"
    /\ Attempt("close")
    /\ \E r \in {"ok", "Exception", "KeyboardInterrupt"} :
         CASE r = "ok" ->
                /\ logf' = "closed"
                /\ pc' = "stop_unlink"
                /\ UNCHANGED <<failed, stop_state, exc, exit_code, outcome, intr_at>>
           [] r = "Exception" ->
                /\ pc' = "stop_unlink"
                /\ Swallowed("close")
                /\ UNCHANGED <<logf, stop_state, exc, exit_code, outcome, intr_at>>
           [] r = "KeyboardInterrupt" ->
                /\ InterruptedInStop("stop_close")
                /\ UNCHANGED logf
    /\ UNCHANGED <<idx, summary, cfg, uds, proc, acquired>>
    /\ UNCHANGED <<mainVars, quietVars>>

\* AfterProbe without the break of line 271
AfterProbe_no_break ==
    /\ outcome' = [outcome EXCEPT ![idx] = IF summary = <<>> THEN "error" ELSE "summary"]
    /\ IF summary # <<>>
       THEN results' = Append(results, summary[1])
       ELSE UNCHANGED results
    /\ pc' = "for"
    /\ UNCHANGED <<exc, exit_code>>

\* lines 268-271 of main, once try_probe has returned (summary = <<>> stands
\* for the None of a failed query)
AfterProbe ==
    /\ outcome' = [outcome EXCEPT ![idx] = IF summary = <<>> THEN "error" ELSE "summary"]
    /\ IF summary # <<>>
       THEN /\ results' = Append(results, summary[1])
            /\ pc' = IF Truthy(summary[1].gm_present) THEN "after_loop" ELSE "for"
       ELSE /\ pc' = "for"
            /\ UNCHANGED results
    /\ UNCHANGED <<exc, exit_code>>

\* lines 96-97, then the end of the finally clause of try_probe: the pending
\* exception goes on, or try_probe returns to the loop of main.
stop_unlink ==
    /\ pc = "stop_unlink"
    /\ Attempt("unlink")
    /\ \E r \in {"ok", "Exception", "KeyboardInterrupt"} :
         IF r = "KeyboardInterrupt"
         THEN /\ InterruptedInStop("stop_unlink")
              /\ UNCHANGED <<cfg, results>>
         ELSE /\ IF r = "ok"
                 THEN cfg' = [cfg EXCEPT ![idx] = FALSE] /\ UNCHANGED failed
                 ELSE Swallowed("unlink") /\ UNCHANGED cfg
              /\ stop_state' = "returned"
              /\ IF exc # "none"
                 THEN Raised(idx, exc) /\ UNCHANGED results
                 ELSE AfterProbe
              /\ UNCHANGED intr_at
    /\ UNCHANGED <<idx, summary, tried, best, uds, logf, proc, acquired>>
    /\ UNCHANGED quietVars

\* lines 272-302: no result, or the selection of the best and its report
finish ==
    /\ pc = "after_loop"
    /\ pc' = "exited"
    /\ IF results = <<>>
       THEN exit_code' = 2 /\ UNCHANGED best
       ELSE /\ best' = <<best_of(results)>>
            /\ exit_code' = best_of(results).status_code
    /\ UNCHANGED <<idx, tried, results, exc, summary, intr_at, outcome>>
    /\ UNCHANGED <<sessionVars, stopVars, quietVars>>

Next ==
    \/ require_root
    \/ ensure_linuxptp
    \/ for_next
    \/ start_mkstemp
    \/ start_open_log
    \/ start_popen
    \/ dwell
    \/ query_and_assess
    \/ stop_term
    \/ stop_wait
    \/ stop_kill
    \/ client_dies
    \/ stop_close
    \/ stop_unlink
    \/ finish

Spec == Init /\ [][Next]_vars

(***************************************************************************)
(* The pure functions on their own: the input is drawn at the start and    *)
(* one action applies the function.  The run does not start (pc = "pure"). *)
(***************************************************************************)
(***************************************************************************)
(* assess on its own, over the snapshots the parser can build: a value is  *)
(* absent, a bool, an int, or a str that int() rejects (the parser turns   *)
(* every other str into an int).                                           *)
(***************************************************************************)
Garbled == StrV(<<"n", "/", "a">>)

MkSnapshot(gm, off, mpd, dom, ddsdom, dm, pnpdm, twostep, ls, la, trace) ==
    [EmptySnapshot EXCEPT
        !.TIME_STATUS_NP.gmPresent = gm,
        !.TIME_STATUS_NP.master_offset = off,
        !.TIME_STATUS_NP.meanPathDelay = mpd,
        !.DOMAIN_.domainNumber = dom,
        !.DEFAULT_DATA_SET.domainNumber = ddsdom,
        !.DELAY_MECHANISM.delay_mechanism = dm,
        !.PORT_DATA_SET_NP.delay_mechanism = pnpdm,
        !.PORT_DATA_SET_NP.twoStep = twostep,
        !.LOG_SYNC_INTERVAL.logSyncInterval = ls,
        !.LOG_ANNOUNCE_INTERVAL.logAnnounceInterval = la,
        !.TIME_PROPERTIES_DATA_SET.timeTraceable = trace[1],
        !.TIME_PROPERTIES_DATA_SET.frequencyTraceable = trace[2],
        !.PARENT_DATA_SET.grandmasterClockClass = trace[3]]

ProductSnapshots ==
    { MkSnapshot(gm, off, mpd, dom, ddsdom, dm, pnpdm, twostep, ls, la, trace) :
        gm \in {NoneV, BoolV(TRUE), BoolV(FALSE)},
        off \in {NoneV, Garbled, IntV(1000000), IntV(-1000001), IntV(10000000),
                 IntV(-10000001)},
        mpd \in {NoneV, IntV(5000001)},
        dom \in {NoneV, IntV(24), IntV(7)},
        ddsdom \in {NoneV, IntV(1)},
        dm \in {NoneV, StrV(P2P), StrV(<<"e", "2", "e">>)},
        pnpdm \in {NoneV, StrV(<<"N", "o", "n", "e">>)},
        twostep \in {NoneV, BoolV(TRUE)},
        ls \in {NoneV, IntV(0)},
        la \in {NoneV, IntV(1)},
        trace \in {<<NoneV, NoneV, NoneV>>, <<BoolV(FALSE), BoolV(FALSE), NoneV>>,
                   <<BoolV(TRUE), NoneV, IntV(128)>>} }

\* snapshots that reach the second choice of each fallback of lines 169-179
FallbackSnapshots ==
    { [SnapHealthy EXCEPT !.TIME_STATUS_NP.meanPathDelay = NoneV,
                          !.TIME_STATUS_NP.peerMeanPathDelay = IntV(6000000)],
      [SnapHealthy EXCEPT !.PORT_DATA_SET_NP.two_step = IntV(1),
                          !.PORT_DATA_SET_NP.delay_mechanism = StrV(P2P),
                          !.PORT_DATA_SET_NP.logSyncInterval = IntV(-3),
                          !.PORT_DATA_SET_NP.logAnnounceInterval = IntV(0)],
      [SnapHealthy EXCEPT !.PORT_DATA_SET_NP.delay_mechanism = StrV(E2E),
                          !.PORT_DATA_SET_NP.logSyncInterval = IntV(-2),
                          !.PORT_DATA_SET_NP.logAnnounceInterval = IntV(0)],
      [SnapHealthy EXCEPT !.DEFAULT_DATA_SET.clockClass = IntV(255),
                          !.DEFAULT_DATA_SET.domainNumber = IntV(-1)],
      [SnapHealthy EXCEPT !.TIME_STATUS_NP.gmPresent = IntV(1),
                          !.TIME_STATUS_NP.master_offset = BoolV(TRUE)],
      SnapBadDomain }

\* snapshots whose delay mechanism is spelled out as automatic or none
ExplicitAutoSnapshots ==
    { [EmptySnapshot EXCEPT !.TIME_STATUS_NP.gmPresent = BoolV(TRUE),
                            !.DELAY_MECHANISM.delay_mechanism = StrV(dm),
                            !.DOMAIN_.domainNumber = dom] :
        dm \in {<<"A", "u", "t", "o">>, AUTO, <<"n", "o", "n", "e">>},
        dom \in {NoneV, IntV(24), IntV(7)} }

AssessSnapshots ==
    ProductSnapshots \cup FallbackSnapshots \cup RunSnapshots \cup ExplicitAutoSnapshots

InitAssess ==
    /\ InitAt("assess")
    /\ arg \in [data : AssessSnapshots, transport : Transports]
    /\ res = <<>>

\* summary = assess(data, infer_transport(transport_flag)), line 251
apply_assess ==
    /\ pc = "assess"
    /\ IF assess_raises(arg.data)
       THEN pc' = "raised" /\ exc' = "ValueError" /\ UNCHANGED res
       ELSE pc' = "assessed" /\ res' = <<assess(arg.data, arg.transport)>> /\ UNCHANGED exc
    /\ UNCHANGED <<idx, tried, results, best, exit_code, summary, intr_at, query, cfg,
                   uds, logf, proc, acquired, attempts, failed, stop_state, outcome, arg>>

NextAssess == apply_assess

SpecAssess == InitAssess /\ [][NextAssess]_vars

(***************************************************************************)
(* parse_pmc_output on its own, over texts made of the lines pmc prints:   *)
(* dataset headers (one dataset under two different headers), fields (one  *)
(* key with two values), and lines that are neither.                       *)
(***************************************************************************)
\* "\tx-0 seq 0 RESPONSE MANAGEMENT TIME_STATUS_NP "
LineHeaderTimeStatus ==
    <<"\t", "x", "-", "0", " ", "s", "e", "q", " ", "0", " ", "R",
      "E", "S", "P", "O", "N", "S", "E", " ", "M", "A", "N", "A",
      "G", "E", "M", "E", "N", "T", " ", "T", "I", "M", "E", "_",
      "S", "T", "A", "T", "U", "S", "_", "N", "P", " ">>

\* "x-1 seq 1 RESPONSE MANAGEMENT TIME_STATUS_NP"
LineHeaderTimeStatusPort1 ==
    <<"x", "-", "1", " ", "s", "e", "q", " ", "1", " ", "R", "E",
      "S", "P", "O", "N", "S", "E", " ", "M", "A", "N", "A", "G",
      "E", "M", "E", "N", "T", " ", "T", "I", "M", "E", "_", "S",
      "T", "A", "T", "U", "S", "_", "N", "P">>

\* "RESPONSE MANAGEMENT DOMAIN"
LineHeaderDomain ==
    <<"R", "E", "S", "P", "O", "N", "S", "E", " ", "M", "A", "N",
      "A", "G", "E", "M", "E", "N", "T", " ", "D", "O", "M", "A",
      "I", "N">>

\* "\t\tgmPresent true"
LineGmPresentTrue ==
    <<"\t", "\t", "g", "m", "P", "r", "e", "s", "e", "n", "t", " ",
      "t", "r", "u", "e">>

\* "gmPresent  False"
LineGmPresentFalse ==
    <<"g", "m", "P", "r", "e", "s", "e", "n", "t", " ", " ", "F",
      "a", "l", "s", "e">>

\* "master_offset 0x2A"
LineOffsetHex ==
    <<"m", "a", "s", "t", "e", "r", "_", "o", "f", "f", "s", "e",
      "t", " ", "0", "x", "2", "A">>

\* "sending: GET DOMAIN"
LineSending ==
    <<"s", "e", "n", "d", "i", "n", "g", ":", " ", "G", "E", "T",
      " ", "D", "O", "M", "A", "I", "N">>

\* " \t"
LineBlank ==
    <<" ", "\t">>

\* "portState MANAGEMENT OK"
LineKeywordInside ==
    <<"p", "o", "r", "t", "S", "t", "a", "t", "e", " ", "M", "A",
      "N", "A", "G", "E", "M", "E", "N", "T", " ", "O", "K">>

SampleLines ==
    <<LineHeaderTimeStatus,
      LineHeaderTimeStatusPort1,
      LineHeaderDomain,
      LineGmPresentTrue,
      LineGmPresentFalse,
      LineOffsetHex,
      LineSending,
      LineBlank,
      LineKeywordInside>>

MaxLines == 4

\* the text whose k-th line is the sample line number ixs[k]
TextOf(ixs) == [k \in 1..Len(ixs) |-> SampleLines[ixs[k]]]

InitParse ==
    /\ InitAt("parse")
    /\ arg \in UNION {[1..n -> 1..Len(SampleLines)] : n \in 0..MaxLines}
    /\ res = <<>>

\* parse_pmc_output(out), line 250
apply_parse ==
    /\ pc = "parse"
    /\ pc' = "parsed"
    /\ res' = <<parse_pmc_output(TextOf(arg))>>
    /\ UNCHANGED <<idx, tried, results, best, exit_code, exc, summary, intr_at, query, cfg,
                   uds, logf, proc, acquired, attempts, failed, stop_state, outcome, arg>>

NextParse == apply_parse

SpecParse == InitParse /\ [][NextParse]_vars

(***************************************************************************)
(* pick_profile on its own.                                                *)
(***************************************************************************)
ProfileTransports == Transports \cup {"Unknown"}

ProfileDomains == {0, 1, 2, 23, 24, 25, 127}

ProfileDelayMechs ==
    {P2P, <<"p", "2", "p">>, E2E, <<"e", "2", "e">>, AUTO, <<"A", "u", "t", "o">>,
     NONE, <<"N", "o", "n", "e">>, <<>>, <<"1">>}

InitProfile ==
    /\ InitAt("pick_profile")
    /\ arg \in [transport : ProfileTransports, domain : ProfileDomains,
                delay_mech : ProfileDelayMechs]
    /\ res = <<>>

\* profile = pick_profile(transport, domain, str(delay_mech), ...), lines 180-181
apply_pick_profile ==
    /\ pc = "pick_profile"
    /\ pc' = "picked"
    /\ res' = <<pick_profile(arg.transport, arg.domain, StrV(arg.delay_mech),
                             NoneV, NoneV, FALSE)>>
    /\ UNCHANGED <<idx, tried, results, best, exit_code, exc, summary, intr_at, query,
                   cfg, uds, logf, proc, acquired, attempts, failed, stop_state,
                   outcome, arg>>

NextProfile == apply_pick_profile

SpecProfile == InitProfile /\ [][NextProfile]_vars

(***************************************************************************)
(* The selection of the best result on its own, over lists of results of   *)
(* which only the fields score reads are kept.                             *)
(***************************************************************************)
MaxCritical == 2

MaxWarnings == 2

Findings(n) == {[i \in 1..k |-> "finding"] : k \in 0..n}

RankResults == [gm_present : {BoolV(TRUE), BoolV(FALSE)},
                critical : Findings(MaxCritical),
                warnings : Findings(MaxWarnings)]

RankInputs == UNION {[1..n -> RankResults] : n \in 1..Len(TransportFlags)}

InitRank ==
    /\ InitAt("rank")
    /\ arg \in RankInputs
    /\ res = <<>>

\* best = sorted(results, key=score, reverse=True)[0], line 276
apply_rank ==
    /\ pc = "rank"
    /\ pc' = "ranked"
    /\ res' = <<best_of(arg)>>
    /\ UNCHANGED <<idx, tried, results, best, exit_code, exc, summary, intr_at, query,
                   cfg, uds, logf, proc, acquired, attempts, failed, stop_state,
                   outcome, arg>>

NextRank == apply_rank

SpecRank == InitRank /\ [][NextRank]_vars

(***************************************************************************)
(* Properties.                                                             *)
(***************************************************************************)
Finished(k) == outcome[k] \in {"summary", "error", "raised"}

\* the step of stop_ptp4l that releases a resource
ReleaseStep(r) ==
    CASE r = "cfg" -> "unlink"
      [] r = "logf" -> "close"
      [] r = "proc" -> "term"

Label(k) == infer_transport(TransportFlags[k])

ProbeOrder == [k \in Sessions |-> Label(k)]

\* C1: after any probe attempt of a transport, however it ended, neither the
\* session's config file nor its control-channel path exists.
C1_NoArtifactAfterProbe ==
    \A k \in Sessions : Finished(k) => ~cfg[k] /\ ~uds[k]

\* C2: when a probe attempt has ended, by return or by exception, every
\* resource its session acquired has had its release attempted exactly once.
C2_ReleasedExactlyOnce ==
    (idx > 0 /\ Finished(idx)) =>
        \A r \in acquired : attempts[ReleaseStep(r)] = 1

\* C3: the status code of an assessment is 2 iff its critical list is
\* non-empty, else 1 iff its warnings list is non-empty, else 0.
C3_StatusMatchesFindings ==
    res # <<>> =>
        LET r == res[1]
        IN  /\ r.status_code \in {0, 1, 2}
            /\ r.status_code = 2 <=> r.critical # <<>>
            /\ r.critical = <<>> => (r.status_code = 1 <=> r.warnings # <<>>)
            /\ (r.critical = <<>> /\ r.warnings = <<>>) => r.status_code = 0

\* an assessment with critical findings and warnings together
C3_Witness ==
    /\ pc = "assessed"
    /\ res[1].critical # <<>>
    /\ res[1].warnings # <<>>
    /\ res[1].status_code = 2

\* C4: a management query that fails, by returning nothing or by running into
\* its timeout, leaves the transport in probe_order, adds no result for it, and
\* try_probe returns to the loop of main, which goes on.
C4_QueryFailureDropped ==
    (idx > 0 /\ query \in {"failed", "TimeoutExpired"} /\ stop_state = "returned") =>
        /\ outcome[idx] = "error"
        /\ tried[idx] = Label(idx)
        /\ \A i \in 1..Len(results) : results[i].transport # Label(idx)
        /\ pc \in {"for", "after_loop"} \/ (pc = "exited" /\ exc = "none")

\* the loop of main is over: the run selects and reports, or has done so
LoopDone == pc = "after_loop" \/ (pc = "exited" /\ exc = "none" /\ idx > 0)

IsPrefix(a, b) == Len(a) <= Len(b) /\ \A i \in 1..Len(a) : a[i] = b[i]

C5_Order ==
    /\ IsPrefix(tried, ProbeOrder)
    /\ Len(tried) = idx
    /\ LoopDone =>
         /\ tried # <<>>
         /\ Len(tried) < Len(ProbeOrder) =>
              /\ results # <<>>
              /\ results[Len(results)].transport = tried[Len(tried)]
              /\ Truthy(results[Len(results)].gm_present)

C5_Step ==
    /\ IsPrefix(tried, tried') /\ Len(tried') <= Len(tried) + 1
    /\ (results # <<>> /\ Truthy(results[Len(results)].gm_present)) => tried' = tried

\* C5: transports are attempted in the order L2, UDPv4, UDPv6, each at most
\* once; no transport is attempted after a result with a grandmaster has been
\* appended; when the loop is over probe_order is a non-empty prefix of the
\* order, a proper one only if its last transport gave a result with a
\* grandmaster.
C5_FixedOrderEarlyStop == []C5_Order /\ [][C5_Step]_vars

\* the loop stopped after the first transport, which reported a grandmaster
C5_Witness ==
    /\ LoopDone
    /\ tried = <<"L2">>
    /\ Len(results) = 1
    /\ Truthy(results[1].gm_present)

\* C6: a run that ends exits with 3 after a setup or runtime failure, with 2
\* without any result (nothing reported) or with a critical best result, with 1
\* when the best result has warnings only, with 0 when it has no finding.
C6_ExitCodes ==
    pc = "exited" =>
        /\ exit_code \in {0, 1, 2, 3}
        /\ exc \in {"OSError", "TimeoutExpired"} => exit_code = 3
        /\ (exc = "none" /\ idx = 0) => exit_code = 3
        /\ (exc = "none" /\ idx > 0 /\ results = <<>>) => (exit_code = 2 /\ best = <<>>)
        /\ best # <<>> =>
             exit_code = IF best[1].critical # <<>> THEN 2
                         ELSE IF best[1].warnings # <<>> THEN 1 ELSE 0

GM(r) == Truthy(r.gm_present)

\* a ranks strictly before b: grandmaster present first, then fewer critical
\* messages, then fewer warnings
Outranks(a, b) ==
    \/ GM(a) /\ ~GM(b)
    \/ GM(a) = GM(b) /\ Len(a.critical) < Len(b.critical)
    \/ GM(a) = GM(b) /\ Len(a.critical) = Len(b.critical)
                     /\ Len(a.warnings) < Len(b.warnings)

\* C7: the best of a non-empty list of results is a member of the list that no
\* member outranks; it has a grandmaster whenever some member has one.
C7_BestIsMinimal ==
    res # <<>> =>
        /\ \E i \in 1..Len(arg) : arg[i] = res[1]
        /\ \A i \in 1..Len(arg) : ~Outranks(arg[i], res[1])
        /\ (\E i \in 1..Len(arg) : GM(arg[i])) => GM(res[1])

\* a result with a grandmaster, two critical messages and two warnings is
\* selected over a result without a grandmaster and without findings
C7_Witness ==
    /\ pc = "ranked"
    /\ GM(res[1]) /\ Len(res[1].critical) = 2 /\ Len(res[1].warnings) = 2
    /\ \E i \in 1..Len(arg) :
         ~GM(arg[i]) /\ arg[i].critical = <<>> /\ arg[i].warnings = <<>>

\* C8: a user interrupt delivered while a session is in flight ends the run
\* with the cleanup of that session done (the release of every resource the
\* session acquired has been attempted) and with no later transport started.
C8_InterruptStillCleansUp ==
    (pc = "exited" /\ intr_at # "none") =>
        /\ \A r \in acquired : attempts[ReleaseStep(r)] = 1
        /\ \A k \in Sessions : k > idx => outcome[k] = "none"

\* C9: stop_ptp4l never raises; when it is over, the graceful signal, the
\* wait, the close and the unlink have each been attempted, whichever of them
\* failed, and the forced kill exactly when the wait timed out.
C9_StopNeverRaises ==
    /\ stop_state # "raised"
    /\ stop_state = "returned" =>
         /\ \A st \in {"term", "wait", "close", "unlink"} : attempts[st] = 1
         /\ attempts["kill"] = IF "wait" \in failed THEN 1 ELSE 0

PeerToPeer(dm) == Upper(dm) = P2P

EndToEndAutoNone(dm) == Upper(dm) \in {E2E, AUTO, NONE}

\* C10: pick_profile returns the label of the first matching row of the
\* decision table.
C10_DecisionTable ==
    res # <<>> =>
        LET t == arg.transport
            d == arg.domain
            m == arg.delay_mech
        IN  /\ (t = "L2" /\ PeerToPeer(m)) =>
                 /\ d \in {0, 1} => res[1] = LabelPowerUtility
                 /\ d = 24 => res[1] = LabelTelecomFull
                 /\ d \notin {0, 1, 24} => res[1] = LabelL2P2P
            /\ (t \in {"UDPv4", "UDPv6"} /\ EndToEndAutoNone(m)) =>
                 /\ d = 24 => res[1] = LabelTelecomPartial
                 /\ d = 0 => res[1] = LabelDefault
                 /\ d \notin {0, 24} => res[1] = LabelIPE2E
            /\ ~(t = "L2" /\ PeerToPeer(m))
               /\ ~(t \in {"UDPv4", "UDPv6"} /\ EndToEndAutoNone(m))
               => res[1] = LabelUnknown

\* an IP transport with a lower-case end-to-end mechanism in domain 24
C10_Witness ==
    /\ pc = "picked"
    /\ arg.transport = "UDPv6" /\ arg.domain = 24 /\ arg.delay_mech = <<"e", "2", "e">>
    /\ res = <<LabelTelecomPartial>>

(***************************************************************************)
(* C11.  For every snapshot assess returns a result for: the critical list *)
(* is non-empty exactly when the grandmaster is absent or the master       *)
(* offset is an integer of absolute value above 10,000,000 ns, and exactly *)
(* then the status is 2; an offset of absolute value in (1,000,000,        *)
(* 10,000,000] gives one offset warning and no offset critical message; an *)
(* offset of absolute value at most 1,000,000 gives neither; and a         *)
(* snapshot without grandmaster has the "no grandmaster" critical message  *)
(* whatever its other fields are.                                          *)
(***************************************************************************)
Count(lst, msg) == Cardinality({k \in 1..Len(lst) : lst[k] = msg})

\* not gm_present, with gm_present = data.get("TIME_STATUS_NP", {}).get("gmPresent", False)
GMAbsent(data) == ~Truthy(Get(data.TIME_STATUS_NP.gmPresent, BoolV(FALSE)))

\* the master offset is there and int() takes it
OffsetIsInt(data) ==
    /\ ~IsNone(data.TIME_STATUS_NP.master_offset)
    /\ IntOf(data.TIME_STATUS_NP.master_offset).ok

OffsetNs(data) == IntOf(data.TIME_STATUS_NP.master_offset).n

OffsetAbove(data, limit) ==
    OffsetIsInt(data) /\ (OffsetNs(data) > limit \/ OffsetNs(data) < -limit)

NameTimeStatus ==
    <<"T", "I", "M", "E", "_", "S", "T", "A", "T", "U", "S", "_", "N", "P">>

NameDomain ==
    <<"D", "O", "M", "A", "I", "N">>

NameOK ==
    <<"O", "K">>

KeyGmPresent ==
    <<"g", "m", "P", "r", "e", "s", "e", "n", "t">>

KeyMasterOffset ==
    <<"m", "a", "s", "t", "e", "r", "_", "o", "f", "f", "s", "e", "t">>

SampleKinds ==
    <<[kind |-> "header", name |-> NameTimeStatus],
      [kind |-> "header", name |-> NameTimeStatus],
      [kind |-> "header", name |-> NameDomain],
      [kind |-> "kv", name |-> KeyGmPresent],
      [kind |-> "kv", name |-> KeyGmPresent],
      [kind |-> "kv", name |-> KeyMasterOffset],
      [kind |-> "noise", name |-> <<>>],
      [kind |-> "noise", name |-> <<>>],
      [kind |-> "header", name |-> NameOK]>>

KindAt(ixs, k) == SampleKinds[ixs[k]]

HeadersBefore(ixs, k) == {h \in 1..(k - 1) : KindAt(ixs, h).kind = "header"}

LastHeaderBefore(ixs, k) ==
    CHOOSE h \in HeadersBefore(ixs, k) : \A g \in HeadersBefore(ixs, k) : g <= h

\* the key-value lines that follow a header of dataset d before the next header
FieldLines(ixs, d) ==
    {k \in 1..Len(ixs) : /\ KindAt(ixs, k).kind = "kv"
                         /\ HeadersBefore(ixs, k) # {}
                         /\ KindAt(ixs, LastHeaderBefore(ixs, k)).name = d}

HeaderNames(ixs) ==
    {KindAt(ixs, k).name : k \in {h \in 1..Len(ixs) : KindAt(ixs, h).kind = "header"}}

ParserEnded == pc \in {"parse", "parsed"} /\ exc = "none"

C12_FieldsCountLines ==
    /\ ParserEnded
    /\ pc = "parsed" =>
          /\ DOMAIN res[1] = HeaderNames(arg)
          /\ \A d \in DOMAIN res[1] :
                Cardinality(DOMAIN res[1][d]) = Cardinality(FieldLines(arg, d))

C12_FieldsCountDistinctKeys ==
    /\ ParserEnded
    /\ pc = "parsed" =>
          /\ DOMAIN res[1] = HeaderNames(arg)
          /\ \A d \in DOMAIN res[1] :
                Cardinality(DOMAIN res[1][d])
                   = Cardinality({KindAt(arg, k).name : k \in FieldLines(arg, d)})

\* a header, then one key twice: one field, holding the later value
C12_Witness ==
    /\ pc = "parsed"
    /\ arg = <<1, 4, 5>>
    /\ DOMAIN res[1] = {NameTimeStatus}
    /\ DOMAIN res[1][NameTimeStatus] = {KeyGmPresent}
    /\ res[1][NameTimeStatus][KeyGmPresent] = BoolV(FALSE)

(***************************************************************************)
(* C13.  At every moment of a run at most one client started by the prober *)
(* is alive: the client of one transport has exited before the client of   *)
(* the next transport is launched, also when the client ignores SIGTERM    *)
(* and stop_ptp4l escalates to SIGKILL after its 5-second wait.            *)
(***************************************************************************)
Alive(k) == proc[k] \in {"running", "killed"}

C13_AtMostOneClientAlive ==
    \A j \in Sessions : \A k \in Sessions : Alive(j) /\ Alive(k) => j = k

(***************************************************************************)
(* C14.  Every snapshot assessed on UDPv4 or UDPv6 whose delay mechanism   *)
(* is absent (and so defaults to "Auto"), "Auto" or "None" gets the        *)
(* delay-mechanism warning, and its status code is never 0: pick_profile   *)
(* takes AUTO and NONE for the IP profiles, and the envelope of each IP    *)
(* profile, the generic IP end-to-end guess included, expects E2E.         *)
(***************************************************************************)
\* the delay mechanism assess reads from the snapshot (line 170)
DelayMechOf(data) ==
    Get(data.DELAY_MECHANISM.delay_mechanism,
        Get(data.PORT_DATA_SET_NP.delay_mechanism, StrV(<<"A", "u", "t", "o">>)))

AutoOrNone(data) ==
    /\ DelayMechOf(data).t = "str"
    /\ Upper(DelayMechOf(data).s) \in {AUTO, NONE}

C14_AutoOnIPIsWarned ==
    (pc = "assessed" /\ arg.transport \in {"UDPv4", "UDPv6"} /\ AutoOrNone(arg.data)) =>
        /\ res[1].profile_guess \in {LabelTelecomPartial, LabelDefault, LabelIPE2E}
        /\ Count(res[1].warnings, MsgDelayMech) = 1
        /\ res[1].status_code # 0

\* no delay mechanism in the snapshot, domain 7 on UDPv4: the generic IP
\* guess, and the delay-mechanism warning the only finding
C14_Witness ==
    /\ pc = "assessed"
    /\ arg.transport = "UDPv4"
    /\ arg.data.DELAY_MECHANISM.delay_mechanism = NoneV
    /\ arg.data.PORT_DATA_SET_NP.delay_mechanism = NoneV
    /\ res[1].delay_mechanism = <<"A", "u", "t", "o">>
    /\ res[1].profile_guess = LabelIPE2E
    /\ res[1].warnings = <<MsgDelayMech>>
    /\ res[1].critical = <<>>
    /\ res[1].status_code = 1

=============================================================================
